---- MODULE Spec2Model ----
(***************************************************************************)
(* Glyph composition engine of character-generator:                        *)
(*   scripts/compose_svg.py  parse_viewbox, load_svg_children,             *)
(*                           make_root_svg, transform_group,               *)
(*                           compose_lr, compose_tb                        *)
(*   scripts/app.py          sanitize_svg_file, compose_new_character,     *)
(*                           gen_file                                      *)
(*                                                                         *)
(* Numbers are exact rationals <<n, d>> with d > 0 in lowest terms; the    *)
(* Python code computes the same expressions in binary floating point.     *)
(*                                                                         *)
(* A document is a record                                                  *)
(*   tags : the open tags whose text starts with "<svg" (any case), in     *)
(*          document order; the root comes first.  A tag is its name as    *)
(*          written and its attributes; an attribute records whether       *)
(*          whitespace separates it from what precedes it.                 *)
(*   vb   : the root's viewBox attribute (absent, or its fields)           *)
(*   kids : the top-level children of the root                             *)
(***************************************************************************)
EXTENDS Integers, Sequences, FiniteSets, TLC

\* ------------------------------------------------------------------ bounds
MaxAttrs      == 2   \* attributes of the first tag of a stored document
MaxInnerAttrs == 0   \* attributes of a second, nested <svg ...> tag
MaxServes    == 2   \* times a stored document is served
MaxVbFields  == 4   \* fields in a viewBox attribute
MaxPicks     == 4   \* components in a request

\* --------------------------------------------------------------- rationals
RECURSIVE Gcd(_, _)
Gcd(a, b) == IF b = 0 THEN a ELSE Gcd(b, a % b)

Abs(n) == IF n < 0 THEN -n ELSE n

\* n/d in lowest terms with a positive denominator (d # 0)
Rat(n, d) ==
    LET g == Gcd(Abs(n), Abs(d))
        s == IF d < 0 THEN -1 ELSE 1
    IN  << (s * n) \div g, (s * d) \div g >>

RInt(n)    == << n, 1 >>
Lcm(a, b)  == (a \div Gcd(a, b)) * b
RAdd(a, b) == LET l == Lcm(a[2], b[2])
              IN  Rat(a[1] * (l \div a[2]) + b[1] * (l \div b[2]), l)
RNeg(a)    == << -a[1], a[2] >>
RSub(a, b) == RAdd(a, RNeg(b))
RMul(a, b) == LET g1 == Gcd(Abs(a[1]), b[2])
                  g2 == Gcd(Abs(b[1]), a[2])
                  h1 == IF g1 = 0 THEN 1 ELSE g1
                  h2 == IF g2 = 0 THEN 1 ELSE g2
              IN  Rat((a[1] \div h1) * (b[1] \div h2),
                      (a[2] \div h2) * (b[2] \div h1))
\* b # 0
RDiv(a, b) == RMul(a, Rat(b[2], b[1]))
RLeq(a, b) == LET l == Lcm(a[2], b[2])
              IN  a[1] * (l \div a[2]) <= b[1] * (l \div b[2])
RLess(a, b) == ~RLeq(b, a)
\* Python's min(a, b): b only when b < a
RMin(a, b) == IF RLess(b, a) THEN b ELSE a
RMax(a, b) == IF RLess(a, b) THEN b ELSE a

\* ------------------------------------------------------- document text
\* Kinds of attribute of an open tag:
\*   "ns"  xmlns="http://www.w3.org/2000/svg"
\*   "nx"  xmlns="..." with another value
\*   "sq"  xmlns='...'  (single quotes)
\*   "up"  XMLNS="..."  (upper case)
\*   "at"  any other attribute, e.g. width="1024"
\* sep: whitespace stands in front of the attribute
AttrKinds == {"ns", "nx", "sq", "up", "at"}
Attrs     == [kind : AttrKinds, sep : BOOLEAN]
TagNames  == {"svg", "SVG"}

Attr(kind) == [kind |-> kind, sep |-> TRUE]

Missing == [tags |-> << >>, vb |-> [present |-> FALSE, fields |-> << >>],
            kids |-> << >>, exists |-> FALSE]

NoVb == [present |-> FALSE, fields |-> << >>]

Doc(tags, vb, kids) ==
    [tags |-> tags, vb |-> vb, kids |-> kids, exists |-> TRUE]

\* namespace declarations written on a tag
CountNs(tag) ==
    Cardinality({i \in 1..Len(tag.attrs) : tag.attrs[i].kind \in {"ns", "nx", "sq"}})

\* ------------------------------------------------------------ the sanitizer
\* re.search(r"<svg\b[^>]*>", txt, IGNORECASE) at one tag: the name in any
\* case, then a word boundary: the end of the tag or whitespace (an attribute
\* starts with a letter).
RootTagMatches(tag) ==
    tag.attrs = << >> \/ Head(tag.attrs).sep

\* index of the first tag the search finds, 0 when there is none
FirstMatch(tags) ==
    IF \E i \in 1..Len(tags) : RootTagMatches(tags[i])
    THEN CHOOSE i \in 1..Len(tags) :
            /\ RootTagMatches(tags[i])
            /\ \A j \in 1..(i - 1) : ~RootTagMatches(tags[j])
    ELSE 0

\* r'\s+xmlns="[^"]*"' (IGNORECASE) does not match at this attribute
KeptByStrip(a) == ~(a.sep /\ a.kind \in {"ns", "nx", "up"})

\* re.sub(r'\s+xmlns="[^"]*"', "", root, IGNORECASE): every double-quoted
\* xmlns (any case) that whitespace precedes goes, with that whitespace
StripXmlns(attrs) == SelectSeq(attrs, KeptByStrip)

\* "xmlns=" in root_no_xmlns (case-sensitive substring test)
HasXmlnsText(attrs) ==
    \E i \in 1..Len(attrs) : attrs[i].kind \in {"ns", "nx", "sq"}

\* root_no_xmlns.replace("<svg", '<svg xmlns="http://www.w3.org/2000/svg"', 1)
\* (case-sensitive: a tag written <SVG is left as it is)
InsertXmlns(tag) ==
    IF tag.name = "svg"
    THEN [tag EXCEPT !.attrs = << Attr("ns") >> \o tag.attrs]
    ELSE tag

\* the root tag as rewritten by lines 68-75
FixRoot(tag) ==
    LET noXmlns == [tag EXCEPT !.attrs = StripXmlns(tag.attrs)]
    IN  IF ~HasXmlnsText(noXmlns.attrs) THEN InsertXmlns(noXmlns) ELSE noXmlns

\* the text of a document after sanitizing (lines 65-77)
SanitizeText(doc) ==
    LET m == FirstMatch(doc.tags)
    IN  IF m = 0 THEN doc
        ELSE [doc EXCEPT !.tags[m] = FixRoot(doc.tags[m])]

\* a sanitizer that computes the fixed root and never writes it back
sanitize_never_writes(files, ro, path) == files

\* sanitize_svg_file: a failed read returns, a failed write is swallowed
sanitize_svg_file(files, ro, path) ==
    IF ~files[path].exists THEN files
    ELSE LET new == SanitizeText(files[path])
         IN  IF new # files[path] /\ path \notin ro
             THEN [files EXCEPT ![path] = new]
             ELSE files

\* ------------------------------------------------------- component loader
\* fields a viewBox attribute is made of in this model, as written
VbFieldVals == {"0", "100", "200", "1024", "-5", "abc"}

\* float(x) succeeds on x
IsFloatText(x) == x \in {"0", "100", "200", "1024", "-5"}

\* float(x)
FloatOf(x) ==
    CASE x = "0"    -> 0
      [] x = "100"  -> 100
      [] x = "200"  -> 200
      [] x = "1024" -> 1024
      [] x = "-5"   -> -5

DefaultFrame == << 0, 0, 1024, 1024 >>

Ok(v)     == [ok |-> TRUE,  err |-> "",  val |-> v]
Raise(e)  == [ok |-> FALSE, err |-> e,   val |-> << >>]

\* parse_viewbox: vb.replace(",", " ").split() yields the fields
parse_viewbox(vb) ==
    IF ~vb.present \/ vb.fields = << >> THEN Ok(DefaultFrame)
    ELSE IF \E i \in 1..Len(vb.fields) : ~IsFloatText(vb.fields[i])
         THEN Raise("ValueError")
         ELSE IF Len(vb.fields) = 4
              THEN Ok([i \in 1..4 |-> FloatOf(vb.fields[i])])
              ELSE Ok(DefaultFrame)

\* what the XML parser accepts of an open tag: attributes separated from the
\* name and from each other by whitespace, no attribute twice
TagWellFormed(tag) ==
    /\ \A i \in 1..Len(tag.attrs) : tag.attrs[i].sep
    /\ CountNs(tag) <= 1
    /\ Cardinality({i \in 1..Len(tag.attrs) : tag.attrs[i].kind = "up"}) <= 1

\* ET.parse(svg_path) succeeds
EtParses(doc) ==
    /\ doc.exists
    /\ Len(doc.tags) >= 1
    /\ \A i \in 1..Len(doc.tags) : TagWellFormed(doc.tags[i])

\* load_svg_children: val = << children, frame >>
load_svg_children(files, path) ==
    IF ~files[path].exists THEN Raise("FileNotFoundError")
    ELSE IF ~EtParses(files[path]) THEN Raise("ParseError")
    ELSE LET vb == parse_viewbox(files[path].vb)
         IN  IF ~vb.ok THEN vb
             ELSE Ok(<< files[path].kids, vb.val >>)

\* ------------------------------------------------------------- compositor
Size == 1024

\* f"{size}"
SizeText(size) == CASE size = 1024 -> "1024"
                    [] size = 200  -> "200"
                    [] size = 100  -> "100"

\* make_root_svg: the root element with its attributes xmlns, viewBox,
\* width, height
make_root_svg(size) ==
    Doc(<< [name |-> "svg", attrs |-> << Attr("ns"), Attr("at"), Attr("at") >>] >>,
        [present |-> TRUE,
         fields  |-> << "0", "0", SizeText(size), SizeText(size) >>],
        << >>)

\* transform_group
transform_group(children, translate_xy, scale_xy) ==
    [tag |-> "g", id |-> 0, tr |-> << translate_xy, scale_xy >>,
     kids |-> children]

\* ET.ElementTree(root).write(...): the serializer writes the declaration of
\* the registered default namespace in front of the root's own attributes
Serialize(root, groups) ==
    [root EXCEPT !.tags[1].attrs = << Attr("ns") >> \o @, !.kids = groups]

\* translation that centres w * s in a slot: slot_x + (slot_w - w*s)/2 - x0*s
Centre(slot_x, slot_w, w, x0, s) ==
    RSub(RAdd(slot_x, RDiv(RSub(slot_w, RMul(RInt(w), s)), RInt(2))),
         RMul(RInt(x0), s))

LrDefaults ==
    [size |-> Size, gutter_ratio |-> Rat(2, 100),
     left_width_ratio |-> Rat(35, 100), height_ratio |-> Rat(82, 100),
     outer_margin_ratio |-> Rat(1, 10), slot_inset_ratio |-> Rat(6, 100),
     align |-> "center"]

TbDefaults ==
    [size |-> Size, gutter_ratio |-> Rat(2, 100),
     top_height_ratio |-> Rat(33, 100)]

\* compose_lr, lines 68-72: clamp inputs
LrClamp(p) ==
    [size   |-> RInt(p.size),
     align  |-> p.align,
     height_ratio       |-> p.height_ratio,
     left_width_ratio   |-> RMax(Rat(5, 100), RMin(Rat(9, 10), p.left_width_ratio)),
     outer_margin_ratio |-> RMax(RInt(0), RMin(Rat(2, 10), p.outer_margin_ratio)),
     slot_inset_ratio   |-> RMax(RInt(0), RMin(Rat(4, 10), p.slot_inset_ratio)),
     gutter |-> RMul(RInt(p.size), p.gutter_ratio)]

\* lines 75, 77
LrMargins(c) ==
    c @@ [outer_margin |-> RMul(c.size, c.outer_margin_ratio),
          total_h      |-> RMul(c.size, c.height_ratio)]

\* lines 76, 78, 84
LrTotals(c) ==
    c @@ [total_w     |-> RMax(RInt(1), RSub(RSub(c.size, RMul(RInt(2), c.outer_margin)),
                                             c.gutter)),
          y_offset    |-> RDiv(RSub(c.size, c.total_h), RInt(2)),
          left_slot_x |-> c.outer_margin]

\* line 80
LrLeftSlot(c) ==
    c @@ [left_slot_w |-> RMul(c.total_w, c.left_width_ratio)]

\* lines 81, 85
LrRightSlot(c) ==
    c @@ [right_slot_w |-> RSub(c.total_w, c.left_slot_w),
          right_slot_x |-> RAdd(RAdd(c.outer_margin, c.left_slot_w), c.gutter)]

\* an inset applied outwards: each slot grows instead of shrinking
LrInsetOutward(c) ==
    c @@ [left_inner_w  |-> RMul(c.left_slot_w,
                                 RAdd(RInt(1), RMul(RInt(2), c.slot_inset_ratio))),
          right_inner_w |-> RMul(c.right_slot_w,
                                 RAdd(RInt(1), RMul(RInt(2), c.slot_inset_ratio))),
          left_inner_x  |-> RSub(c.left_slot_x, RMul(c.left_slot_w, c.slot_inset_ratio)),
          right_inner_x |-> RSub(c.right_slot_x, RMul(c.right_slot_w, c.slot_inset_ratio))]

\* lines 88-91: inset each slot
LrInset(c) ==
    c @@ [left_inner_w  |-> RMul(c.left_slot_w,
                                 RSub(RInt(1), RMul(RInt(2), c.slot_inset_ratio))),
          right_inner_w |-> RMul(c.right_slot_w,
                                 RSub(RInt(1), RMul(RInt(2), c.slot_inset_ratio))),
          left_inner_x  |-> RAdd(c.left_slot_x, RMul(c.left_slot_w, c.slot_inset_ratio)),
          right_inner_x |-> RAdd(c.right_slot_x, RMul(c.right_slot_w, c.slot_inset_ratio))]

\* the slots of compose_lr (lines 68-91)
lr_slots(p) == LrInset(LrRightSlot(LrLeftSlot(LrTotals(LrMargins(LrClamp(p))))))

\* lines 99-109: the vertical translation of one component, scale sy
LrTy(c, f, sy) ==
    IF c.align = "baseline"
    THEN RSub(RSub(c.size, RMul(RInt(f[4]), sy)), RMul(RInt(f[2]), sy))
    ELSE Centre(c.y_offset, c.total_h, f[4], f[2], sy)

\* lines 93-117: one component placed in its inner slot
LrGroup(c, children, f, inner_x, inner_w, sx, sy) ==
    transform_group(children,
                    << Centre(inner_x, inner_w, f[3], f[1], sx), LrTy(c, f, sy) >>,
                    << sx, sy >>)

\* lines 93-119, given the loaded components and the slots
LrPlace(c, l, r) ==
    IF l[2][4] = 0 \/ l[2][3] = 0 \/ r[2][4] = 0 \/ r[2][3] = 0
    THEN Raise("ZeroDivisionError")
    ELSE Ok(Serialize(make_root_svg(c.size[1]),
              << LrGroup(c, l[1], l[2], c.left_inner_x, c.left_inner_w,
                         RDiv(c.left_inner_w, RInt(l[2][3])),
                         RDiv(c.total_h, RInt(l[2][4]))),
                 LrGroup(c, r[1], r[2], c.right_inner_x, c.right_inner_w,
                         RDiv(c.right_inner_w, RInt(r[2][3])),
                         RDiv(c.total_h, RInt(r[2][4]))) >>))

\* lines 65-66, then the rest
LrLoaded(l, r, p) ==
    IF ~l.ok THEN l
    ELSE IF ~r.ok THEN r
    ELSE LrPlace(lr_slots(p), l.val, r.val)

\* compose_lr up to the assembled document (lines 65-119)
lr_document(files, left_svg, right_svg, p) ==
    LrLoaded(load_svg_children(files, left_svg),
             load_svg_children(files, right_svg), p)

\* compose_tb, lines 137-138
TbGutter(p) ==
    [size   |-> RInt(p.size),
     top_height_ratio |-> p.top_height_ratio,
     gutter |-> RMul(RInt(p.size), p.gutter_ratio)]

TbUsable(c) == c @@ [usable_h |-> RSub(c.size, c.gutter), slot_w |-> c.size]

\* line 139
TbTop(c) == c @@ [top_slot_h |-> RMul(c.usable_h, c.top_height_ratio)]

\* line 140
TbBottom(c) == c @@ [bot_slot_h |-> RSub(c.usable_h, c.top_slot_h)]

\* the slots of compose_tb (lines 137-141)
tb_slots(p) == TbBottom(TbTop(TbUsable(TbGutter(p))))

\* lines 143-156: one component placed in its slot, uniform scale s
TbGroup(c, children, f, slot_y, slot_h, s) ==
    transform_group(children,
                    << Centre(RInt(0), c.size, f[3], f[1], s),
                       Centre(slot_y, slot_h, f[4], f[2], s) >>,
                    << s, s >>)

\* lines 143-159, given the loaded components and the slots
TbPlace(c, t, b) ==
    IF t[2][3] = 0 \/ t[2][4] = 0 \/ b[2][3] = 0 \/ b[2][4] = 0
    THEN Raise("ZeroDivisionError")
    ELSE Ok(Serialize(make_root_svg(c.size[1]),
              << TbGroup(c, t[1], t[2], RInt(0), c.top_slot_h,
                         RMin(RDiv(c.slot_w, RInt(t[2][3])),
                              RDiv(c.top_slot_h, RInt(t[2][4])))),
                 TbGroup(c, b[1], b[2], RAdd(c.top_slot_h, c.gutter), c.bot_slot_h,
                         RMin(RDiv(c.slot_w, RInt(b[2][3])),
                              RDiv(c.bot_slot_h, RInt(b[2][4])))) >>))

TbLoaded(t, b, p) ==
    IF ~t.ok THEN t
    ELSE IF ~b.ok THEN b
    ELSE TbPlace(tb_slots(p), t.val, b.val)

\* compose_tb up to the assembled document (lines 132-159)
tb_document(files, top_svg, bottom_svg, p) ==
    TbLoaded(load_svg_children(files, top_svg),
             load_svg_children(files, bottom_svg), p)

\* the write at the end of compose_lr / compose_tb (lines 121-122, 161-162):
\* val = the files after it
WriteOut(files, ro, out_path, d) ==
    IF ~d.ok THEN d
    ELSE IF out_path \in ro THEN Raise("OSError")
    ELSE Ok([files EXCEPT ![out_path] = d.val])

compose_lr(files, ro, left_svg, right_svg, out_path, p) ==
    WriteOut(files, ro, out_path, lr_document(files, left_svg, right_svg, p))

compose_tb(files, ro, top_svg, bottom_svg, out_path, p) ==
    WriteOut(files, ro, out_path, tb_document(files, top_svg, bottom_svg, p))

\* ------------------------------------------------------------------ state
VARIABLES
    fs,       \* file name -> document (Missing when there is no such file)
    env,      \* ro: files that cannot be written; pinned: cannot be deleted
    outDir,   \* OUT_DIR exists
    io,       \* file-system operations performed so far
    pc,       \* per request: position in compose_new_character
    loc,      \* per request: arguments, locals and the returned value
    served,   \* responses of gen_file, oldest first
    cli       \* results of direct calls of the compositor (compose_svg.main)

vars == << fs, env, outDir, io, pc, loc, served, cli >>

Procs   == {"r1"}
Layouts == {"lr", "tb"}

\* fp(n): the component file of radical n
CompFiles == << "001.svg", "002.svg", "003.svg", "004.svg", "005.svg", "006.svg" >>
fp(n) == CompFiles[n]

\* names derived from (base, layout, stamp), lines 191, 203, 210, 217, 233
OutName(layout)  == IF layout = "lr" THEN "w_lr_1.svg"     ELSE "w_tb_1.svg"
TmpName(layout)  == IF layout = "lr" THEN "tmp_w_lr_1.svg" ELSE "tmp_w_tb_1.svg"
Out3Name(layout) == IF layout = "lr" THEN "w_lr3_1.svg"    ELSE "w_tb3_1.svg"

StoredName == "stored.svg"

OutFiles == {OutName(l) : l \in Layouts} \cup {TmpName(l) : l \in Layouts}
            \cup {Out3Name(l) : l \in Layouts} \cup {StoredName}

Names == {CompFiles[i] : i \in 1..Len(CompFiles)} \cup OutFiles

\* the calls at lines 194, 196, 208, 212, 215, 219, 236, 238 pass size=1024,
\* gutter_ratio=0.0 and leave the other parameters at their defaults
AppLr == [LrDefaults EXCEPT !.gutter_ratio = RInt(0)]
AppTb == [TbDefaults EXCEPT !.gutter_ratio = RInt(0)]

Compose(fn, files, ro, a, b, out) ==
    IF fn = "lr" THEN compose_lr(files, ro, a, b, out, AppLr)
                 ELSE compose_tb(files, ro, a, b, out, AppTb)

Opposite(layout) == IF layout = "lr" THEN "tb" ELSE "lr"

\* file-system operations of one compose_lr / compose_tb call with result r:
\* the first load, the second when the first succeeded, makedirs and the
\* write when the document was assembled
ComposeIo(a, b, out, firstOk, r) ==
    {<< "read", a >>}
    \cup (IF firstOk THEN {<< "read", b >>} ELSE {})
    \cup (IF r.ok \/ r.err = "OSError"
          THEN {<< "mkdir", "out" >>, << "write", out >>} ELSE {})

\* file-system operations of one sanitize_svg_file call
SanitizeIo(files, path) ==
    {<< "read", path >>}
    \cup (IF files[path].exists /\ SanitizeText(files[path]) # files[path]
          THEN {<< "write", path >>} ELSE {})

\* ---------------------------------------------------- compose_new_character
\* request p takes the result r of a compose_lr / compose_tb call
Called(p, fn, a, b, out, okPc, failPc, step, r, firstOk) ==
    /\ fs' = IF r.ok THEN r.val ELSE fs
    /\ pc' = [pc EXCEPT ![p] = IF r.ok THEN okPc ELSE failPc]
    /\ loc' = [loc EXCEPT
                 ![p].calls = Append(@, [fn |-> fn, a |-> a, b |-> b, out |-> out]),
                 ![p].err   = r.err,
                 ![p].via   = IF r.ok THEN @ ELSE step]
    /\ io' = io \cup ComposeIo(a, b, out, firstOk, r)
    /\ outDir' = (outDir \/ r.ok \/ r.err = "OSError")
    /\ UNCHANGED << env, served, cli >>

\* one call of compose_lr / compose_tb made by request p
Call(p, fn, a, b, out, okPc, failPc, step) ==
    Called(p, fn, a, b, out, okPc, failPc, step,
           Compose(fn, fs, env.ro, a, b, out), load_svg_children(fs, a).ok)

\* one call of sanitize_svg_file made by request p; result # "" returns it
Sanitize(p, path, nextPc, result) ==
    /\ fs' = sanitize_svg_file(fs, env.ro, path)
    /\ io' = io \cup SanitizeIo(fs, path)
    /\ pc' = [pc EXCEPT ![p] = nextPc]
    /\ loc' = [loc EXCEPT ![p].result = result]
    /\ UNCHANGED << env, outDir, served, cli >>

\* a driver that creates OUT_DIR before it looks at picks
BeginMkdirFirst(p) ==
    /\ pc[p] = "start"
    /\ outDir' = TRUE
    /\ io' = io \cup {<< "mkdir", "out" >>}
    /\ IF ~loc[p].hasPicks \/ Len(loc[p].picks) < 2
       THEN /\ pc' = [pc EXCEPT ![p] = "done"]
            /\ loc' = [loc EXCEPT ![p].result = "None"]
       ELSE /\ pc' = [pc EXCEPT ![p] =
                        IF Len(loc[p].picks) = 2 THEN "compose2" ELSE "inner"]
            /\ UNCHANGED loc
    /\ UNCHANGED << fs, env, served, cli >>

\* lines 177-190: the guard, mkdir, the names
Begin(p) ==
    /\ pc[p] = "start"
    /\ IF ~loc[p].hasPicks \/ Len(loc[p].picks) < 2
       THEN /\ pc' = [pc EXCEPT ![p] = "done"]
            /\ loc' = [loc EXCEPT ![p].result = "None"]
            /\ UNCHANGED << fs, env, outDir, io, served, cli >>
       ELSE /\ outDir' = TRUE
            /\ io' = io \cup {<< "mkdir", "out" >>}
            /\ pc' = [pc EXCEPT ![p] =
                        IF Len(loc[p].picks) = 2 THEN "compose2" ELSE "inner"]
            /\ UNCHANGED << fs, env, loc, served, cli >>

\* lines 193-196
Compose2(p) ==
    /\ pc[p] = "compose2"
    /\ Call(p, loc[p].layout, fp(loc[p].picks[1]), fp(loc[p].picks[2]),
            OutName(loc[p].layout), "san2", "raised", "two")

\* lines 197-199
San2(p) ==
    /\ pc[p] = "san2"
    /\ Sanitize(p, OutName(loc[p].layout), "done", OutName(loc[p].layout))

\* a driver that nests with the outer layout
InnerSameLayout(p) ==
    /\ pc[p] = "inner"
    /\ Call(p, loc[p].layout, fp(loc[p].picks[2]), fp(loc[p].picks[3]),
            TmpName(loc[p].layout), "santmp", "fallback", "inner")

\* lines 208 / 215: the intermediate of (n1, n2)
Inner(p) ==
    /\ pc[p] = "inner"
    /\ Call(p, Opposite(loc[p].layout), fp(loc[p].picks[2]), fp(loc[p].picks[3]),
            TmpName(loc[p].layout), "santmp", "fallback", "inner")

\* a driver that re-uses the intermediate as it was written
SanTmpSkipped(p) ==
    /\ pc[p] = "santmp"
    /\ pc' = [pc EXCEPT ![p] = "outer"]
    /\ UNCHANGED << fs, env, outDir, io, loc, served, cli >>

\* lines 209 / 216
SanTmp(p) ==
    /\ pc[p] = "santmp"
    /\ Sanitize(p, TmpName(loc[p].layout), "outer", "")

\* lines 212 / 219: n0 against the intermediate
Outer(p) ==
    /\ pc[p] = "outer"
    /\ Call(p, loc[p].layout, fp(loc[p].picks[1]), TmpName(loc[p].layout),
            Out3Name(loc[p].layout), "san3", "fallback", "outer")

\* line 221
San3(p) ==
    /\ pc[p] = "san3"
    /\ Sanitize(p, Out3Name(loc[p].layout), "unlink", "")

\* lines 224-229: unlink(missing_ok=True), a failure is swallowed
Unlink(p) ==
    /\ pc[p] = "unlink"
    /\ fs' = IF TmpName(loc[p].layout) \in env.pinned THEN fs
             ELSE [fs EXCEPT ![TmpName(loc[p].layout)] = Missing]
    /\ io' = io \cup {<< "unlink", TmpName(loc[p].layout) >>}
    /\ pc' = [pc EXCEPT ![p] = "done"]
    /\ loc' = [loc EXCEPT ![p].result = Out3Name(loc[p].layout)]
    /\ UNCHANGED << env, outDir, served, cli >>

\* a fallback that pairs the first component with the third
FallbackThird(p) ==
    /\ pc[p] = "fallback"
    /\ Call(p, loc[p].layout, fp(loc[p].picks[1]), fp(loc[p].picks[3]),
            OutName(loc[p].layout), "sanfb", "raised", loc[p].via)

\* lines 231-238
Fallback(p) ==
    /\ pc[p] = "fallback"
    /\ Call(p, loc[p].layout, fp(loc[p].picks[1]), fp(loc[p].picks[2]),
            OutName(loc[p].layout), "sanfb", "raised", loc[p].via)

\* lines 239-241
SanFb(p) ==
    /\ pc[p] = "sanfb"
    /\ Sanitize(p, OutName(loc[p].layout), "done", OutName(loc[p].layout))

\* ---------------------------------------------------------------- gen_file
gen_file(name) ==
    /\ Len(served) < MaxServes
    /\ IF ~fs[name].exists
       THEN /\ served' = Append(served, [name |-> name, status |-> 404,
                                         before |-> fs[name], body |-> Missing])
            /\ UNCHANGED << fs, io >>
       ELSE /\ fs' = sanitize_svg_file(fs, env.ro, name)
            /\ io' = io \cup SanitizeIo(fs, name)
            /\ served' = Append(served, [name |-> name, status |-> 200,
                                         before |-> fs[name], body |-> fs'[name]])
    /\ UNCHANGED << env, outDir, pc, loc, cli >>

\* --------------------------------------------------------- direct calls
Pending == [ok |-> FALSE, err |-> "pending", val |-> << >>]

\* load_svg_children(001.svg)
cli_load ==
    /\ cli.load = Pending
    /\ cli' = [cli EXCEPT !.load = load_svg_children(fs, fp(1))]
    /\ io' = io \cup {<< "read", fp(1) >>}
    /\ UNCHANGED << fs, env, outDir, pc, loc, served >>

\* compose_svg.main --struct lr / tb: the compositor with its defaults, with
\* 001.svg as the first or as the second operand
CliFn(fn, files, ro, a, b, out) ==
    IF fn = "lr" THEN compose_lr(files, ro, a, b, out, LrDefaults)
                 ELSE compose_tb(files, ro, a, b, out, TbDefaults)

MainDone(fn, a, b, r) ==
    /\ cli' = [cli EXCEPT ![fn] = [r EXCEPT !.val = << >>]]
    /\ fs' = IF r.ok THEN r.val ELSE fs
    /\ io' = io \cup ComposeIo(a, b, OutName(fn), load_svg_children(fs, a).ok, r)
    /\ outDir' = (outDir \/ r.ok \/ r.err = "OSError")

main(fn) ==
    /\ cli[fn] = Pending
    /\ \E a \in {fp(1), fp(2)} :
         MainDone(fn, a, IF a = fp(1) THEN fp(2) ELSE fp(1),
                  CliFn(fn, fs, env.ro, a, IF a = fp(1) THEN fp(2) ELSE fp(1), OutName(fn)))
    /\ UNCHANGED << env, pc, loc, served >>

\* ------------------------------------------------------------ initial states
SeqsUpTo(S, n) == UNION {[1..k -> S] : k \in 0..n}

GoodRoot == [name |-> "svg", attrs |-> << Attr("ns") >>]
Leaf(i)  == [tag |-> "path", id |-> i, tr |-> << >>, kids |-> << >>]

Vb(fields) == [present |-> TRUE, fields |-> fields]

CompKinds == {"plain", "tall", "missing", "dup", "nonnum", "flat"}

\* component file of radical i
CompDoc(kind, i) ==
    CASE kind = "plain"   -> Doc(<< GoodRoot >>, NoVb, << Leaf(i) >>)
      [] kind = "tall"    -> Doc(<< GoodRoot >>, Vb(<< "0", "0", "100", "200" >>), << Leaf(i) >>)
      [] kind = "missing" -> Missing
      [] kind = "dup"     -> Doc(<< [name |-> "svg", attrs |-> << Attr("ns"), Attr("ns") >>] >>,
                                 NoVb, << Leaf(i) >>)
      [] kind = "nonnum"  -> Doc(<< GoodRoot >>, Vb(<< "0", "0", "abc", "100" >>), << Leaf(i) >>)
      [] kind = "flat"    -> Doc(<< GoodRoot >>, Vb(<< "0", "0", "0", "100" >>), << Leaf(i) >>)

NumComps == Len(CompFiles)

PlainFiles ==
    [n \in Names |->
        IF \E i \in 1..NumComps : n = fp(i)
        THEN CompDoc("plain", CHOOSE i \in 1..NumComps : n = fp(i))
        ELSE Missing]

IdleLoc == [hasPicks |-> FALSE, picks |-> << >>, layout |-> "lr",
            result |-> "", calls |-> << >>, err |-> "", via |-> ""]

NoCli == [load |-> Pending, lr |-> Pending, tb |-> Pending]

\* one request compose_new_character(word, picks, layout)
Init ==
    \E kinds \in [1..3 -> CompKinds], k \in 0..MaxPicks, hp \in BOOLEAN,
       layout \in Layouts :
      \E ro \in SUBSET {OutName(layout), TmpName(layout), Out3Name(layout)},
         pinned \in SUBSET {TmpName(layout)} :
        /\ (~hp => k = 0)
        /\ fs = [PlainFiles EXCEPT ![fp(1)] = CompDoc(kinds[1], 1),
                                   ![fp(2)] = CompDoc(kinds[2], 2),
                                   ![fp(3)] = CompDoc(kinds[3], 3)]
        /\ env = [ro |-> ro, pinned |-> pinned]
        /\ outDir = FALSE
        /\ io = {}
        /\ pc = [p \in Procs |-> "start"]
        /\ loc = [p \in Procs |->
                    [IdleLoc EXCEPT !.hasPicks = hp, !.picks = [i \in 1..k |-> i],
                                    !.layout = layout]]
        /\ served = << >>
        /\ cli = NoCli

Next ==
    \E p \in Procs :
        \/ Begin(p)
        \/ Compose2(p)
        \/ San2(p)
        \/ Inner(p)
        \/ SanTmp(p)
        \/ Outer(p)
        \/ San3(p)
        \/ Unlink(p)
        \/ Fallback(p)
        \/ SanFb(p)

Spec == Init /\ [][Next]_vars

\* stored documents served by gen_file
StoredTags(n) ==
    {[name |-> nm, attrs |-> t] : nm \in TagNames, t \in SeqsUpTo(Attrs, n)}

StoredDocs ==
    {Doc(<< t1 >>, NoVb, << >>) : t1 \in StoredTags(MaxAttrs)}
    \cup {Doc(<< t1, t2 >>, NoVb, << >>) :
             t1 \in StoredTags(MaxAttrs), t2 \in StoredTags(MaxInnerAttrs)}
    \cup {Doc(<< >>, NoVb, << >>), Missing}

InitServe ==
    \E d \in StoredDocs, ro \in SUBSET {StoredName} :
        /\ fs = [PlainFiles EXCEPT ![StoredName] = d]
        /\ env = [ro |-> ro, pinned |-> {}]
        /\ outDir = TRUE
        /\ io = {}
        /\ pc = [p \in Procs |-> "idle"]
        /\ loc = [p \in Procs |-> IdleLoc]
        /\ served = << >>
        /\ cli = NoCli

NextServe == gen_file(StoredName)

SpecServe == InitServe /\ [][NextServe]_vars

\* the compositor called on a component with an arbitrary viewBox attribute
VbAttrs == {NoVb} \cup {Vb(f) : f \in SeqsUpTo(VbFieldVals, MaxVbFields)}

InitCli ==
    \E vb \in VbAttrs :
        /\ fs = [PlainFiles EXCEPT ![fp(1)] = Doc(<< GoodRoot >>, vb, << Leaf(1) >>)]
        /\ env = [ro |-> {}, pinned |-> {}]
        /\ outDir = FALSE
        /\ io = {}
        /\ pc = [p \in Procs |-> "idle"]
        /\ loc = [p \in Procs |-> IdleLoc]
        /\ served = << >>
        /\ cli = NoCli

NextCli ==
    \/ cli_load
    \/ main("lr")
    \/ main("tb")

SpecCli == InitCli /\ [][NextCli]_vars

\* the application: one request, and gen_file serving the names the request
\* derives, at any moment
RequestNames(p) ==
    {OutName(loc[p].layout), TmpName(loc[p].layout), Out3Name(loc[p].layout)}

Serve(p) == \E n \in RequestNames(p) : gen_file(n)

InitApp ==
    /\ Init
    /\ env.pinned = {}
    /\ env.ro \subseteq {Out3Name(l) : l \in Layouts}
    /\ \A p \in Procs : loc[p].hasPicks /\ Len(loc[p].picks) \in {2, 3}
    /\ fs[fp(1)] = CompDoc("plain", 1)
    /\ fs[fp(2)] \in {CompDoc("plain", 2), CompDoc("tall", 2)}
    /\ fs[fp(3)] \in {CompDoc("plain", 3), CompDoc("missing", 3)}

NextApp ==
    \/ Next
    \/ \E p \in Procs : Serve(p)

SpecApp == InitApp /\ [][NextApp]_vars

\* two requests with the same word, picks, layout and time stamp, served by
\* concurrent threads: they derive the same three names
Racers == {"r1", "r2"}

InitRace ==
    \E kinds \in [1..3 -> {"plain", "tall"}], k \in 2..3, layout \in Layouts :
        /\ fs = [PlainFiles EXCEPT ![fp(1)] = CompDoc(kinds[1], 1),
                                   ![fp(2)] = CompDoc(kinds[2], 2),
                                   ![fp(3)] = CompDoc(kinds[3], 3)]
        /\ env = [ro |-> {}, pinned |-> {}]
        /\ outDir = FALSE
        /\ io = {}
        /\ pc = [p \in Racers |-> "start"]
        /\ loc = [p \in Racers |->
                    [IdleLoc EXCEPT !.hasPicks = TRUE, !.picks = [i \in 1..k |-> i],
                                    !.layout = layout]]
        /\ served = << >>
        /\ cli = NoCli

NextRace ==
    \E p \in Racers :
        \/ Begin(p)
        \/ Compose2(p)
        \/ San2(p)
        \/ Inner(p)
        \/ SanTmp(p)
        \/ Outer(p)
        \/ San3(p)
        \/ Unlink(p)
        \/ Fallback(p)
        \/ SanFb(p)

SpecRace == InitRace /\ [][NextRace]_vars

\* compose_lr / compose_tb called as library functions with keyword arguments
Sizes == {1024, 200}

LrParams ==
    [size : Sizes,
     gutter_ratio       : {Rat(2, 100), RInt(2)},
     left_width_ratio   : {Rat(35, 100), RInt(2), RInt(-1)},
     height_ratio       : {Rat(82, 100), RInt(2)},
     outer_margin_ratio : {Rat(1, 10), RInt(5)},
     slot_inset_ratio   : {Rat(6, 100), RInt(3)},
     align              : {"center", "baseline"}]

TbParams ==
    [size : Sizes,
     gutter_ratio     : {Rat(2, 100), RInt(2)},
     top_height_ratio : {Rat(33, 100), RInt(2), RInt(-1)}]

LibFn(fn, files, ro, a, b, out, params) ==
    IF fn = "lr" THEN compose_lr(files, ro, a, b, out, params.lr)
                 ELSE compose_tb(files, ro, a, b, out, params.tb)

\* compose_lr(001.svg, 002.svg, out, **params.lr) or the same of compose_tb
compose_with(fn) ==
    /\ cli[fn] = Pending
    /\ MainDone(fn, fp(1), fp(2),
                LibFn(fn, fs, env.ro, fp(1), fp(2), OutName(fn), cli.params))
    /\ UNCHANGED << env, pc, loc, served >>

InitLib ==
    \E pl \in LrParams, pt \in TbParams, kind \in {"plain", "tall"} :
        /\ fs = [PlainFiles EXCEPT ![fp(1)] = CompDoc(kind, 1)]
        /\ env = [ro |-> {}, pinned |-> {}]
        /\ outDir = FALSE
        /\ io = {}
        /\ pc = [p \in Procs |-> "idle"]
        /\ loc = [p \in Procs |-> IdleLoc]
        /\ served = << >>
        /\ cli = NoCli @@ [params |-> [lr |-> pl, tb |-> pt]]

NextLib ==
    \/ compose_with("lr")
    \/ compose_with("tb")

SpecLib == InitLib /\ [][NextLib]_vars

\* ==================================================================== claims
\* what a finished request handed back: the exception, or the name and the
\* document stored under it
Outcome(p) ==
    IF pc[p] = "raised"
    THEN [raised |-> TRUE, err |-> loc[p].err, name |-> "", doc |-> Missing]
    ELSE [raised |-> FALSE, err |-> "", name |-> loc[p].result,
          doc |-> fs[loc[p].result]]

\* the result r of a composition, sanitized under name
Sanitized(r, ro, name) ==
    IF r.ok
    THEN [raised |-> FALSE, err |-> "", name |-> name,
          doc |-> sanitize_svg_file(r.val, ro, name)[name]]
    ELSE [raised |-> TRUE, err |-> r.err, name |-> "", doc |-> Missing]

\* the layout's composition function applied to the first two components with
\* the application's parameters, sanitized, under the 2-component name
TwoComponentResult(files, ro, picks, layout) ==
    Sanitized(Compose(layout, files, ro, fp(picks[1]), fp(picks[2]), OutName(layout)),
              ro, OutName(layout))

Finished(p) == pc[p] \in {"done", "raised"}

ThreePicks(p) == loc[p].hasPicks /\ Len(loc[p].picks) = 3

CanvasVb == Vb(<< "0", "0", "1024", "1024" >>)

\* C1: a 3-component request with layout lr or tb never raises; when it is
\* done it returns the name of a document that was written.  Stated with
\* every output file writable, so that the steps that fail are loads,
\* parses and transform computations.
C1_ThreeComponentsNeverRaise ==
    \A p \in Procs :
        (ThreePicks(p) /\ env.ro = {}) =>
            /\ pc[p] # "raised"
            /\ (pc[p] = "done" => (loc[p].result \in OutFiles /\ fs[loc[p].result].exists))

\* C2: a 3-component request whose intermediate composition of (B, C) failed
\* ends exactly as a 2-component request of (A, B) under the same layout
\* ends: the same function on the same operands with the same parameters,
\* sanitized, under the 2-component name (or the same exception).
C2_FallbackEqualsTwoComponent ==
    \A p \in Procs :
        /\ (loc[p].hasPicks /\ Len(loc[p].picks) = 2 /\ Finished(p))
             => Outcome(p) = TwoComponentResult(fs, env.ro, loc[p].picks, loc[p].layout)
        /\ (ThreePicks(p) /\ loc[p].via = "inner" /\ Finished(p))
             => /\ Outcome(p) = TwoComponentResult(fs, env.ro, loc[p].picks, loc[p].layout)
                /\ loc[p].calls[Len(loc[p].calls)] =
                      [fn |-> loc[p].layout, a |-> fp(loc[p].picks[1]),
                       b |-> fp(loc[p].picks[2]), out |-> OutName(loc[p].layout)]

\* a 3-component request whose intermediate failed has returned the fallback
C2_Witness ==
    \E p \in Procs :
        /\ ThreePicks(p) /\ loc[p].via = "inner" /\ pc[p] = "done"
        /\ loc[p].result = OutName(loc[p].layout)
        /\ fs[loc[p].result].exists

\* C3: a request with more than 3 components is rejected before any I/O: no
\* directory is created, nothing is read, nothing is written, nothing composed.
C3_MoreThanThreeRejected ==
    \A p \in Procs :
        (loc[p].hasPicks /\ Len(loc[p].picks) > 3) =>
            /\ io = {}
            /\ ~outDir
            /\ loc[p].calls = << >>
            /\ \A n \in OutFiles : ~fs[n].exists
            /\ loc[p].result \in {"", "InvalidRequest"}

\* C4: a request with no component list, or with 0 or 1 components, returns
\* the "not composable" signal and performs no I/O.
C4_TooFewNotComposable ==
    \A p \in Procs :
        (~loc[p].hasPicks \/ Len(loc[p].picks) < 2) =>
            /\ pc[p] \in {"start", "done"}
            /\ (pc[p] = "done" => loc[p].result = "None")
            /\ io = {}
            /\ ~outDir
            /\ loc[p].calls = << >>
            /\ \A n \in OutFiles : ~fs[n].exists

\* a request with one component has returned
C4_Witness ==
    \E p \in Procs :
        /\ loc[p].hasPicks /\ Len(loc[p].picks) = 1
        /\ pc[p] = "done" /\ loc[p].result = "None"

\* the top-level children of the component file of radical n
KidsOf(n) == fs[fp(n)].kids

\* C5: for a 3-component request the first composition is the opposite
\* layout's, of (B, C) in that order, into the temporary; the second is the
\* outer layout's, of A first against the temporary; the nested result holds
\* A's content in its first group and the groups of B and C, in that order,
\* in its second.
C5_InnerLayoutOpposite ==
    \A p \in Procs :
        ThreePicks(p) =>
            /\ Len(loc[p].calls) >= 1 =>
                 loc[p].calls[1] =
                    [fn |-> Opposite(loc[p].layout), a |-> fp(loc[p].picks[2]),
                     b |-> fp(loc[p].picks[3]), out |-> TmpName(loc[p].layout)]
            /\ (Len(loc[p].calls) >= 2 /\ loc[p].via # "inner") =>
                 loc[p].calls[2] =
                    [fn |-> loc[p].layout, a |-> fp(loc[p].picks[1]),
                     b |-> TmpName(loc[p].layout), out |-> Out3Name(loc[p].layout)]
            /\ pc[p] \in {"santmp", "outer"} =>
                 /\ Len(fs[TmpName(loc[p].layout)].kids) = 2
                 /\ fs[TmpName(loc[p].layout)].kids[1].kids = KidsOf(loc[p].picks[2])
                 /\ fs[TmpName(loc[p].layout)].kids[2].kids = KidsOf(loc[p].picks[3])
                 \* the stacked composition scales uniformly
                 /\ loc[p].layout = "lr" =>
                      \A i \in 1..2 :
                         fs[TmpName(loc[p].layout)].kids[i].tr[2][1]
                            = fs[TmpName(loc[p].layout)].kids[i].tr[2][2]
            /\ pc[p] \in {"san3", "unlink"} =>
                 /\ Len(fs[Out3Name(loc[p].layout)].kids) = 2
                 /\ fs[Out3Name(loc[p].layout)].kids[1].kids = KidsOf(loc[p].picks[1])
                 /\ Len(fs[Out3Name(loc[p].layout)].kids[2].kids) = 2
                 /\ fs[Out3Name(loc[p].layout)].kids[2].kids[1].kids = KidsOf(loc[p].picks[2])
                 /\ fs[Out3Name(loc[p].layout)].kids[2].kids[2].kids = KidsOf(loc[p].picks[3])

\* a nested 3-component composition has been written
C5_Witness ==
    \E p \in Procs :
        /\ ThreePicks(p) /\ pc[p] = "unlink" /\ Len(loc[p].calls) = 2
        /\ fs[Out3Name(loc[p].layout)].exists

\* every attribute of the tag is separated by whitespace, as XML requires
Separated(tag) == \A j \in 1..Len(tag.attrs) : tag.attrs[j].sep

\* C6: sanitizing a stored document whose root <svg ...> tag carries no
\* namespace declaration, or more than one, leaves that tag with exactly one,
\* the canonical one, directly after the tag name.  Stated for root tags
\* whose attributes are separated by whitespace.
C6_SanitizeYieldsOneDeclaration ==
    \A i \in 1..Len(served) :
        ( /\ served[i].status = 200
          /\ served[i].name \notin env.ro
          /\ Len(served[i].before.tags) >= 1
          /\ served[i].before.tags[1].name = "svg"
          /\ Separated(served[i].before.tags[1])
          /\ CountNs(served[i].before.tags[1]) # 1 )
        => /\ CountNs(served[i].body.tags[1]) = 1
           /\ Head(served[i].body.tags[1].attrs) = Attr("ns")

\* C7: a second sanitize pass never changes the stored document.
C7_SanitizeIdempotent ==
    \A i \in 1..Len(served) :
        (i > 1 /\ served[i].status = 200) => served[i].body = served[i - 1].body

\* C8: the document whose name a request returns parses to one root, has the
\* viewBox "0 0 size size" and exactly one namespace declaration on its root.
C8_ReturnedDocumentClean ==
    \A p \in Procs :
        (pc[p] = "done" /\ loc[p].result # "None") =>
            /\ loc[p].result \in OutFiles
            /\ EtParses(fs[loc[p].result])
            /\ Len(fs[loc[p].result].tags) = 1
            /\ fs[loc[p].result].vb = CanvasVb
            /\ CountNs(fs[loc[p].result].tags[1]) = 1

\* a nested 3-component request has returned its document
C8_Witness ==
    \E p \in Procs :
        /\ ThreePicks(p) /\ pc[p] = "done"
        /\ loc[p].result = Out3Name(loc[p].layout)
        /\ fs[loc[p].result].exists

\* the viewBox attribute of the component the compositor was called on
CliVb == fs[fp(1)].vb

\* missing, empty, not four fields, or a field that is no number
VbMissingOrMalformed(vb) ==
    \/ ~vb.present
    \/ Len(vb.fields) # 4
    \/ \E i \in 1..Len(vb.fields) : ~IsFloatText(vb.fields[i])

\* C9: loading a component whose viewBox is missing or malformed in any way
\* yields the default frame and does not fail.
C9_MalformedViewBoxDefaults ==
    (cli.load # Pending /\ VbMissingOrMalformed(CliVb)) =>
        /\ cli.load.ok
        /\ cli.load.val[2] = DefaultFrame

\* the component's viewBox parses to a frame of non-positive width or height
DegenerateFrame(vb) ==
    /\ parse_viewbox(vb).ok
    /\ (parse_viewbox(vb).val[3] <= 0 \/ parse_viewbox(vb).val[4] <= 0)

\* C10: neither side-by-side nor stacked composition fails on a component
\* whose frame has non-positive width or height.
C10_DegenerateFrameGuarded ==
    DegenerateFrame(CliVb) =>
        /\ (cli.lr # Pending => cli.lr.ok)
        /\ (cli.tb # Pending => cli.tb.ok)

\* --------------------------------------------------------- mapped frames
\* the image of the frame f = << x0, y0, w, h >> under the transform of the
\* group g: translate(tx, ty) scale(sx, sy)
XLo(g, f) == RAdd(g.tr[1][1], RMul(RInt(f[1]), g.tr[2][1]))
XHi(g, f) == RAdd(g.tr[1][1], RMul(RInt(f[1] + f[3]), g.tr[2][1]))
YLo(g, f) == RAdd(g.tr[1][2], RMul(RInt(f[2]), g.tr[2][2]))
YHi(g, f) == RAdd(g.tr[1][2], RMul(RInt(f[2] + f[4]), g.tr[2][2]))

\* the document the direct call of compose_lr wrote
LrOut == fs[OutName("lr")]

\* both operands of the direct call have the frame (0, 0, 1024, 1024)
BothDefaultFrames ==
    /\ parse_viewbox(CliVb).ok
    /\ parse_viewbox(CliVb).val = DefaultFrame

\* C12: with default ratios and two components of frame (0, 0, 1024, 1024),
\* compose_lr maps the left frame into [outer_margin, outer_margin +
\* left_slot_w], the right frame into [outer_margin + left_slot_w + gutter,
\* size - outer_margin], and the two x-extents do not overlap.
C12_LrExtentsInSlots ==
    (cli.lr.ok /\ BothDefaultFrames) =>
        LET c == lr_slots(LrDefaults)
            L == LrOut.kids[1]
            R == LrOut.kids[2]
        IN  /\ RLeq(c.outer_margin, XLo(L, DefaultFrame))
            /\ RLess(XLo(L, DefaultFrame), XHi(L, DefaultFrame))
            /\ RLeq(XHi(L, DefaultFrame), RAdd(c.outer_margin, c.left_slot_w))
            /\ RLeq(RAdd(RAdd(c.outer_margin, c.left_slot_w), c.gutter),
                    XLo(R, DefaultFrame))
            /\ RLess(XLo(R, DefaultFrame), XHi(R, DefaultFrame))
            /\ RLeq(XHi(R, DefaultFrame), RSub(c.size, c.outer_margin))
            /\ RLeq(XHi(L, DefaultFrame), XLo(R, DefaultFrame))

\* a side-by-side composition of two default-frame components was written
C12_Witness ==
    /\ cli.lr.ok /\ BothDefaultFrames
    /\ LrOut.exists /\ Len(LrOut.kids) = 2
    /\ RLess(RInt(0), LrOut.kids[1].tr[2][1])

\* the slots compose_lr computes from its arguments lie on the canvas
LrSlotsOnCanvas(c) ==
    /\ RLeq(RInt(0), c.left_slot_x)
    /\ RLeq(RInt(0), c.left_slot_w)
    /\ RLeq(RAdd(c.left_slot_x, c.left_slot_w), c.right_slot_x)
    /\ RLeq(RInt(0), c.right_slot_w)
    /\ RLeq(RAdd(c.right_slot_x, c.right_slot_w), c.size)
    /\ RLeq(RInt(0), c.y_offset)
    /\ RLeq(RInt(0), c.total_h)
    /\ RLeq(RAdd(c.y_offset, c.total_h), c.size)

\* the slots compose_tb computes from its arguments lie on the canvas
TbSlotsOnCanvas(c) ==
    /\ RLeq(RInt(0), c.gutter)
    /\ RLeq(RInt(0), c.top_slot_h)
    /\ RLeq(RInt(0), c.bot_slot_h)
    /\ RLeq(RAdd(RAdd(c.top_slot_h, c.gutter), c.bot_slot_h), c.size)
    /\ RLeq(c.slot_w, c.size)

\* C11: whatever numeric values the configuration parameters have, the
\* composition does not fail and the slots it computed have non-negative
\* width and height and lie inside the canvas [0, size] on both axes.
C11_ParametersClamped ==
    /\ cli.lr # Pending =>
         (cli.lr.ok /\ LrSlotsOnCanvas(lr_slots(cli.params.lr)))
    /\ cli.tb # Pending =>
         (cli.tb.ok /\ TbSlotsOnCanvas(tb_slots(cli.params.tb)))

\* the frames of the two operands of the library call
LibFrame(i) == load_svg_children(fs, fp(i)).val[2]

\* the vertical band the two slots of compose_lr share
BandLo(p) == RDiv(RSub(RInt(p.size), RMul(RInt(p.size), p.height_ratio)), RInt(2))
BandHi(p) == RDiv(RAdd(RInt(p.size), RMul(RInt(p.size), p.height_ratio)), RInt(2))

\* C16: compose_lr draws each component exactly total_h = size * height_ratio
\* high, inside the band [(size - total_h)/2, (size + total_h)/2]: centred in
\* it for align=center, bottom-aligned in it for align=baseline.  Stated for
\* the default height_ratio.
C16_LrVerticalBand ==
    (cli.lr.ok /\ cli.params.lr.height_ratio = LrDefaults.height_ratio) =>
        \A i \in 1..2 :
            /\ RSub(YHi(LrOut.kids[i], LibFrame(i)), YLo(LrOut.kids[i], LibFrame(i)))
                  = RMul(RInt(cli.params.lr.size), cli.params.lr.height_ratio)
            /\ RLeq(BandLo(cli.params.lr), YLo(LrOut.kids[i], LibFrame(i)))
            /\ RLeq(YHi(LrOut.kids[i], LibFrame(i)), BandHi(cli.params.lr))
            /\ cli.params.lr.align = "center" =>
                  YLo(LrOut.kids[i], LibFrame(i)) = BandLo(cli.params.lr)
            /\ cli.params.lr.align = "baseline" =>
                  YHi(LrOut.kids[i], LibFrame(i)) = BandHi(cli.params.lr)

\* C13: when a 3-component request has returned, through the nested path or
\* through the fallback, its temporary intermediate no longer exists, unless
\* the deletion itself failed.
C13_TemporaryDeleted ==
    \A p \in Procs :
        (ThreePicks(p) /\ pc[p] = "done" /\ TmpName(loc[p].layout) \notin env.pinned)
            => ~fs[TmpName(loc[p].layout)].exists

\* C14: the intermediate is sanitized between its write and its re-parse,
\* every output between its last write and the return of its name, every
\* stored document right before it is served: whatever the order of compose
\* and serve steps, the document about to be re-parsed, the document whose
\* name is returned and every served body carry one namespace declaration on
\* their root.
C14_SanitizedBeforeUse ==
    /\ \A p \in Procs :
          /\ pc[p] = "outer" =>
                /\ EtParses(fs[TmpName(loc[p].layout)])
                /\ CountNs(fs[TmpName(loc[p].layout)].tags[1]) = 1
          /\ (pc[p] = "done" /\ loc[p].result \in OutFiles) =>
                CountNs(fs[loc[p].result].tags[1]) = 1
    /\ \A i \in 1..Len(served) :
          served[i].status = 200 =>
              /\ Len(served[i].body.tags) = 1
              /\ CountNs(served[i].body.tags[1]) = 1

\* a composed document was requested before the driver had sanitized it, and
\* was served with one declaration
C14_Witness ==
    \E i \in 1..Len(served) :
        /\ served[i].status = 200
        /\ CountNs(served[i].before.tags[1]) = 2
        /\ CountNs(served[i].body.tags[1]) = 1

\* C15: two concurrent requests that derive the same names do not harm each
\* other: neither raises, neither falls back, and each one returns the name
\* of the document its own number of components calls for.
C15_ConcurrentRequestsBenign ==
    \A p \in DOMAIN pc :
        /\ pc[p] # "raised"
        /\ loc[p].via = ""
        /\ pc[p] = "done" =>
              /\ loc[p].result =
                    (IF Len(loc[p].picks) = 2 THEN OutName(loc[p].layout)
                                               ELSE Out3Name(loc[p].layout))
              /\ fs[loc[p].result].exists

====
